---- MODULE Spec2Model ----
(***************************************************************************)
(* LM Studio adapter for the VS Code chat-provider interface.              *)
(*                                                                         *)
(* The model follows src/src/provider.ts (class LMStudioProvider) and the  *)
(* activation entry point with its configuration listener                  *)
(* (src/unnamed/part_001, lines 1-24).  JavaScript runs each handler to    *)
(* its next await without interleaving, so one action is one such run:     *)
(* the synchronous prefix of an async method, or the continuation that     *)
(* resumes after an awaited promise settles.                               *)
(***************************************************************************)
EXTENDS Integers, Sequences, FiniteSets, TLC

VARIABLES
    activated,      \* activate() has run: provider, command and listener registered
    apiUrl,         \* the configured value of lmStudioAdapter.apiUrl
    client,         \* LMStudioProvider.client
    wsUrl,          \* LMStudioProvider._wsUrl
    heap,           \* the arrays allocated so far, by reference
    cachedModels,   \* LMStudioProvider.cachedModels: a reference into heap
    refreshes,      \* the calls of refreshModels, in the order they started
    notifications,  \* number of error messages shown to the user
    info,           \* what provideLanguageModelChatInformation returned last
    chats,          \* the calls of provideLanguageModelChatResponse
    counts,         \* the calls of provideTokenCount
    cfgChanges,     \* number of changes of lmStudioAdapter.apiUrl seen by the listener
    messages,       \* input of _constructChatHistory
    chatHistory     \* result of _constructChatHistory

vars == <<activated, apiUrl, client, wsUrl, heap, cachedModels, refreshes,
          notifications, info, chats, counts, cfgChanges, messages, chatHistory>>

providerVars == <<client, wsUrl, heap, cachedModels, refreshes, notifications>>
historyVars == <<messages, chatHistory>>

----------------------------------------------------------------------------
(* Bounds of the model *)

MaxRefreshes == 2
MaxChats == 2
MaxCounts == 1
MaxOperations == 3
MaxListing == 2
MaxMessages == 2
MaxRequestParts == 3
MaxStream == 2
MaxTools == 2

----------------------------------------------------------------------------
(* Configuration and client *)

\* the calls of the provider's asynchronous methods so far
Operations == Len(refreshes) + Len(chats) + Len(counts)


Unset == "<undefined>"
DefaultUrl == "ws://localhost:1234"
RemoteUrl == "ws://remote:1234"
InvalidUrl == "http://remote:1234"
NoUrl == "<none>"

\* values the host may hold for lmStudioAdapter.apiUrl
ConfigValues == {Unset, "", RemoteUrl, InvalidUrl}

\* config.get<string>('apiUrl') || 'ws://localhost:1234'
configuredUrl(cfg) == IF cfg = Unset \/ cfg = "" THEN DefaultUrl ELSE cfg

NoClient == [baseUrl |-> NoUrl]

\* new LMStudioClient({ baseUrl }) rejects a base URL that is not ws: or wss:
constructorThrows(url) == url \notin {DefaultUrl, RemoteUrl}

LMStudioClient(url) == [baseUrl |-> url]

\* ensureClient as a function of the configuration and the two fields; the
\* result carries the new field values and whether the constructor threw.
\* _wsUrl is assigned before the constructor runs.
ensureClient(cfg, cl, ws) ==
    LET url == configuredUrl(cfg) IN
    IF cl = NoClient \/ ws # url
    THEN IF constructorThrows(url)
         THEN [threw |-> TRUE, client |-> cl, wsUrl |-> url]
         ELSE [threw |-> FALSE, client |-> LMStudioClient(url), wsUrl |-> url]
    ELSE [threw |-> FALSE, client |-> cl, wsUrl |-> ws]

----------------------------------------------------------------------------
(* Models reported by the server *)

LLMInfo(type, key, name, ctx, vision, tools) ==
    [type |-> type, modelKey |-> key, displayName |-> name,
     maxContextLength |-> ctx, vision |-> vision, trainedForToolUse |-> tools]

Downloaded ==
    { LLMInfo("llm", "qwen", "Qwen", 4096, FALSE, TRUE),
      LLMInfo("embedding", "nomic", "Nomic Embed", 2048, FALSE, FALSE),
      LLMInfo("llm", "smolvlm", "SmolVLM", 1024, TRUE, FALSE) }

RECURSIVE SeqsUpTo(_, _)
SeqsUpTo(S, n) ==
    IF n = 0 THEN {<<>>}
    ELSE LET shorter == SeqsUpTo(S, n - 1) IN
         shorter \cup {Append(s, x) : s \in shorter, x \in S}

NoRepeat(s) == \A i, j \in DOMAIN s : i # j => s[i] # s[j]

\* what listDownloadedModels may resolve to
Listings == {s \in SeqsUpTo(Downloaded, MaxListing) : NoRepeat(s)}

isLLM(model) == model.type = "llm"

\* a listing kept whole
filterNothing(listing) == listing

\* Array.prototype.filter always returns a fresh array
filterLLM(listing) == SelectSeq(listing, isLLM)

----------------------------------------------------------------------------
(* The cached model list *)

\* the array the field points at is overwritten
assignInPlace(h, ref, contents) == [heap |-> [h EXCEPT ![ref] = contents], ref |-> ref]

\* this.cachedModels = <a fresh array>: the array is allocated and the field
\* is pointed at it; the array it pointed at before is left as it was.
assignCachedModels(h, ref, contents) ==
    [heap |-> Append(h, contents), ref |-> Len(h) + 1]

\* try-branch of refreshModels after the listing resolved
listingResolved(h, ref, listing) == assignCachedModels(h, ref, filterLLM(listing))

\* the error is shown and the cache is left as it is
listingRejectedKeepsCache(h, ref, shown) ==
    [cache |-> [heap |-> h, ref |-> ref], shown |-> shown + 1]

\* catch-branch of refreshModels: one error message, then the empty list
listingRejected(h, ref, shown) ==
    [cache |-> assignCachedModels(h, ref, <<>>), shown |-> shown + 1]

\* the event fires in the try-branch and again in the finally-branch
fireTwice(rec, cacheNow) == [rec EXCEPT !.fired = @ + 2, !.seen = cacheNow]

\* finally-branch: this._onDidChangeLanguageModelChatInformation.fire().
\* The listeners run now, so they see the cache as it is at this moment.
fire(rec, cacheNow) == [rec EXCEPT !.fired = @ + 1, !.seen = cacheNow]

\* provideLanguageModelChatInformation: cachedModels.map(...)
chatInformation(model) ==
    [id |-> model.modelKey, name |-> model.displayName, family |-> "llama",
     version |-> "1.0.0", maxInputTokens |-> model.maxContextLength - 2000,
     maxOutputTokens |-> 2000,
     capabilities |-> [imageInput |-> model.vision,
                       toolCalling |-> model.trainedForToolUse]]

provideLanguageModelChatInformation(cache) ==
    [i \in DOMAIN cache |-> chatInformation(cache[i])]

----------------------------------------------------------------------------
(* refreshModels *)

Origins == {"constructor", "command", "configuration"}

\* A call of refreshModels while the setting holds cfg, up to its await, or to
\* its end when ensureClient throws: then catch and finally run at once.
refreshModels(origin, cfg) ==
    LET e == ensureClient(cfg, client, wsUrl)
        rec == [origin |-> origin, cfg |-> configuredUrl(cfg), via |-> NoUrl,
                state |-> "listing", ok |-> FALSE, listCalls |-> 0,
                listing |-> <<>>, ref |-> 0, shown |-> 0, fired |-> 0, seen |-> <<>>]
    IN /\ Len(refreshes) < MaxRefreshes
       /\ Operations < MaxOperations
       /\ client' = e.client
       /\ wsUrl' = e.wsUrl
       /\ IF e.threw
          THEN LET c == listingRejected(heap, cachedModels, notifications) IN
               /\ heap' = c.cache.heap
               /\ cachedModels' = c.cache.ref
               /\ notifications' = c.shown
               /\ refreshes' = Append(refreshes,
                      fire([rec EXCEPT !.state = "done", !.ref = c.cache.ref,
                                       !.shown = c.shown - notifications],
                           c.cache.heap[c.cache.ref]))
          ELSE /\ refreshes' = Append(refreshes,
                      [rec EXCEPT !.via = e.client.baseUrl, !.listCalls = 1])
               /\ UNCHANGED <<heap, cachedModels, notifications>>

\* listDownloadedModels resolved with listing: filter, assign, fire
RefreshResolved(r, listing) ==
    /\ refreshes[r].state = "listing"
    /\ LET c == listingResolved(heap, cachedModels, listing) IN
       /\ heap' = c.heap
       /\ cachedModels' = c.ref
       /\ refreshes' = [refreshes EXCEPT ![r] =
              fire([@ EXCEPT !.state = "done", !.ok = TRUE, !.listing = listing,
                            !.ref = c.ref],
                   c.heap[c.ref])]
    /\ UNCHANGED <<activated, apiUrl, client, wsUrl, notifications, info, chats,
                   counts, cfgChanges, historyVars>>

\* listDownloadedModels rejected: show the error, empty the cache, fire
RefreshRejected(r) ==
    /\ refreshes[r].state = "listing"
    /\ LET c == listingRejected(heap, cachedModels, notifications) IN
       /\ heap' = c.cache.heap
       /\ cachedModels' = c.cache.ref
       /\ notifications' = c.shown
       /\ refreshes' = [refreshes EXCEPT ![r] =
              fire([@ EXCEPT !.state = "done", !.ref = c.cache.ref,
                            !.shown = c.shown - notifications],
                   c.cache.heap[c.cache.ref])]
    /\ UNCHANGED <<activated, apiUrl, client, wsUrl, info, chats, counts,
                   cfgChanges, historyVars>>

----------------------------------------------------------------------------
(* Activation, the refresh command and the configuration listener *)

\* activate(): new LMStudioProvider() runs refreshModels from the constructor;
\* the provider, the command and the listener are registered
Activate ==
    /\ ~activated
    /\ activated' = TRUE
    /\ refreshModels("constructor", apiUrl)
    /\ UNCHANGED <<apiUrl, info, chats, counts, cfgChanges, historyVars>>

\* command lm-studio-adapter.refreshModels
RefreshCommand ==
    /\ activated
    /\ refreshModels("command", apiUrl)
    /\ UNCHANGED <<activated, apiUrl, info, chats, counts, cfgChanges, historyVars>>

\* onDidChangeConfiguration with affectsConfiguration('lmStudioAdapter.apiUrl'):
\* the setting holds its new value when the listener runs
\* handleConfigurationChange, which calls refreshModels
ConfigurationChange(value) ==
    /\ activated
    /\ value # apiUrl
    /\ apiUrl' = value
    /\ cfgChanges' = cfgChanges + 1
    /\ refreshModels("configuration", value)
    /\ UNCHANGED <<activated, info, chats, counts, historyVars>>

\* the host asks the registered provider for its models
ProvideInformation ==
    /\ activated
    /\ info' = [from |-> cachedModels,
                entries |-> provideLanguageModelChatInformation(heap[cachedModels])]
    /\ UNCHANGED <<activated, apiUrl, providerVars, chats, counts, cfgChanges,
                   historyVars>>

----------------------------------------------------------------------------
(* _constructChatHistory *)

\* vscode.LanguageModelChatMessageRole
Roles == {"User", "Assistant", "System"}

LanguageModelTextPart(value) == [kind |-> "LanguageModelTextPart", value |-> value]
LanguageModelToolCallPart(callId, name, input) ==
    [kind |-> "LanguageModelToolCallPart", callId |-> callId, name |-> name,
     input |-> input]
LanguageModelToolResultPart(callId, content) ==
    [kind |-> "LanguageModelToolResultPart", callId |-> callId, content |-> content]
\* a part of a class the adapter does not test for
LanguageModelDataPart == [kind |-> "LanguageModelDataPart"]

instanceof(part, class) == part.kind = class

TextValues == {"a", "b"}

\* what a tool result may contain
InnerParts == {LanguageModelTextPart(v) : v \in TextValues} \cup {LanguageModelDataPart}

\* what a message may contain; a tool result starts empty and is filled
\* part by part
HostParts ==
    {LanguageModelTextPart(v) : v \in TextValues}
    \cup {LanguageModelToolCallPart("call-1", "read_file", [path |-> "x"])}
    \cup {LanguageModelToolResultPart("call-2", <<>>)}
    \cup {LanguageModelDataPart}

RECURSIVE Sum(_)
Sum(ns) == IF ns = <<>> THEN 0 ELSE Head(ns) + Sum(Tail(ns))

\* the parts of a list of messages, those inside tool results included
RequestParts(msgs) ==
    Sum([i \in DOMAIN msgs |->
            Sum([j \in DOMAIN msgs[i].content |->
                    IF instanceof(msgs[i].content[j], "LanguageModelToolResultPart")
                    THEN 1 + Len(msgs[i].content[j].content) ELSE 1])])

\* Array.prototype.join('') on strings
RECURSIVE join(_)
join(strs) == IF strs = <<>> THEN "" ELSE Head(strs) \o join(Tail(strs))

\* the values joined last to first
resultContentReversed(content) ==
    join([i \in DOMAIN content |->
            LET part == content[Len(content) + 1 - i] IN
            IF part.kind = "LanguageModelTextPart" THEN part.value ELSE ""])

\* content of a toolCallResult: the values of the text parts, joined
resultContent(content) ==
    join([i \in DOMAIN content |->
            IF instanceof(content[i], "LanguageModelTextPart")
            THEN content[i].value ELSE ""])

\* a tool call is not tested for and falls through to the empty text part
historyPartWithoutToolCall(part) ==
    IF part.kind = "LanguageModelTextPart"
    THEN [type |-> "text", text |-> part.value]
    ELSE IF part.kind = "LanguageModelToolResultPart"
    THEN [type |-> "toolCallResult", toolCallId |-> part.callId,
          content |-> resultContent(part.content)]
    ELSE [type |-> "text", text |-> ""]

\* the mapping of one part of a message
historyPart(part) ==
    IF instanceof(part, "LanguageModelTextPart")
    THEN [type |-> "text", text |-> part.value]
    ELSE IF instanceof(part, "LanguageModelToolCallPart")
    THEN [type |-> "toolCallRequest",
          toolCallRequest |-> [type |-> "function", id |-> part.callId,
                               name |-> part.name, arguments |-> part.input]]
    ELSE IF instanceof(part, "LanguageModelToolResultPart")
    THEN [type |-> "toolCallResult", toolCallId |-> part.callId,
          content |-> resultContent(part.content)]
    ELSE [type |-> "text", text |-> ""]

\* the role of the record of one message
historyRole(msg) ==
    LET role == IF msg.role = "Assistant" THEN "assistant" ELSE "user" IN
    IF \E i \in DOMAIN msg.content :
            instanceof(msg.content[i], "LanguageModelToolResultPart")
    THEN "tool" ELSE role

\* what the callback of messages.map returns when no branch returns
Undefined == [role |-> "undefined", content |-> <<>>]

\* the mapping of one message
historyRecord(msg) ==
    LET role == historyRole(msg)
        parts == [i \in DOMAIN msg.content |-> historyPart(msg.content[i])]
    IN IF role = "user" THEN [role |-> "user", content |-> parts]
       ELSE IF role = "assistant" THEN [role |-> "assistant", content |-> parts]
       ELSE IF role = "tool" THEN [role |-> "tool", content |-> parts]
       ELSE Undefined

constructChatHistory(msgs) ==
    [messages |-> [i \in DOMAIN msgs |-> historyRecord(msgs[i])]]

NotConstructed == [messages |-> <<Undefined>>]

\* The host assembles the messages of a request: it adds a message, ...
RequestMessage(role) ==
    /\ chatHistory = NotConstructed
    /\ Len(messages) < MaxMessages
    /\ messages' = Append(messages, [role |-> role, content |-> <<>>])
    /\ UNCHANGED <<activated, apiUrl, providerVars, info, chats, counts, cfgChanges,
                   chatHistory>>

\* ... a part to the last message, ...
RequestPart(part) ==
    /\ chatHistory = NotConstructed
    /\ messages # <<>>
    /\ RequestParts(messages) < MaxRequestParts
    /\ messages' = [messages EXCEPT ![Len(messages)].content = Append(@, part)]
    /\ UNCHANGED <<activated, apiUrl, providerVars, info, chats, counts, cfgChanges,
                   chatHistory>>

\* ... or a part to the tool result that ends the last message
ResultPart(part) ==
    /\ chatHistory = NotConstructed
    /\ messages # <<>>
    /\ RequestParts(messages) < MaxRequestParts
    /\ LET content == messages[Len(messages)].content IN
       /\ content # <<>>
       /\ instanceof(content[Len(content)], "LanguageModelToolResultPart")
       /\ messages' = [messages EXCEPT
                          ![Len(messages)].content[Len(content)].content = Append(@, part)]
    /\ UNCHANGED <<activated, apiUrl, providerVars, info, chats, counts, cfgChanges,
                   chatHistory>>

\* the adapter converts the messages of a request
ConstructChatHistory ==
    /\ chatHistory = NotConstructed
    /\ chatHistory' = constructChatHistory(messages)
    /\ UNCHANGED <<activated, apiUrl, providerVars, info, chats, counts, cfgChanges,
                   messages>>

----------------------------------------------------------------------------
(* provideLanguageModelChatResponse *)

\* the text part reported by provideLanguageModelChatResponse without a client
Placeholder == "Failed to connect to LM Studio. Please ensure the server is running and the API URL is correct."

\* the message of the Error thrown by provideTokenCount without a client
NoClientError == "Error: Failed to connect to LM Studio. Please ensure the server is running and the API URL is correct."

\* a value that is undefined, and the object {}
JsUndefined == [undefined |-> TRUE]
EmptyObject == [property \in {} |-> property]

\* a ?? b
nullish(a, b) == IF a = JsUndefined THEN b ELSE a

\* the tools the host may offer; inputSchema is optional
Tools ==
    { [name |-> "read_file", description |-> "Read a file",
       inputSchema |-> [type |-> "object"]],
      [name |-> "list_dir", description |-> "List a directory",
       inputSchema |-> JsUndefined] }

\* options.modelOptions: absent, without maxTokens, or with one
ModelOptions ==
    {EmptyObject} \cup {[modelOptions |-> EmptyObject]}
    \cup {[modelOptions |-> [maxTokens |-> n]] : n \in {0, 4000}}

\* options.tools: absent, or a list of tools
ToolOptions ==
    {EmptyObject} \cup {[tools |-> ts] : ts \in {s \in SeqsUpTo(Tools, MaxTools) : NoRepeat(s)}}

\* the properties of two objects in one
merge(a, b) ==
    [property \in DOMAIN a \cup DOMAIN b |->
        IF property \in DOMAIN a THEN a[property] ELSE b[property]]

\* the options of a chat request
RequestOptions == {merge(t, m) : t \in ToolOptions, m \in ModelOptions}

\* options.modelOptions?.maxTokens || 2000
maxTokens(options) ==
    IF /\ "modelOptions" \in DOMAIN options
       /\ "maxTokens" \in DOMAIN options.modelOptions
       /\ options.modelOptions.maxTokens # 0
    THEN options.modelOptions.maxTokens
    ELSE 2000

\* tool => ({ type: "function", function: { name, description, parameters } })
functionTool(tool) ==
    [type |-> "function",
     function |-> [name |-> tool.name, description |-> tool.description,
                   parameters |-> tool.inputSchema]]

\* the tools mapped last to first
rawToolsReversed(options) ==
    [type |-> "toolArray",
     tools |-> IF "tools" \in DOMAIN options
               THEN [i \in DOMAIN options.tools |->
                        functionTool(options.tools[Len(options.tools) + 1 - i])]
               ELSE <<>>]

\* rawTools: options.tools?.map(...) || []
rawTools(options) ==
    [type |-> "toolArray",
     tools |-> IF "tools" \in DOMAIN options
               THEN [i \in DOMAIN options.tools |-> functionTool(options.tools[i])]
               ELSE <<>>]

\* the listener is kept whatever the state of the token, and no timer is set
onCancellationRequestedKeepsOnly(cancelled) == [listening |-> TRUE, timer |-> FALSE]

\* token.onCancellationRequested(listener).  On a token that is not cancelled
\* the listener is kept and runs when cancellation is requested; on a token
\* that is already cancelled the host's event calls it from a zero-delay timer.
onCancellationRequested(cancelled) ==
    IF cancelled THEN [listening |-> FALSE, timer |-> TRUE]
    ELSE [listening |-> TRUE, timer |-> FALSE]

\* the listener: () => abortController.abort()
abort(signal) == "aborted"

\* catch (error) { throw error; }
respondRejectedAlwaysThrows(isCancellationRequested) == "rejected"

\* catch (error) { if (!token.isCancellationRequested) throw error; }
respondRejected(isCancellationRequested) ==
    IF ~isCancellationRequested THEN "rejected" ELSE "resolved"

\* The call up to its first await: ensureClient, the test of its result, and
\* client.llm.model(model.id)
ChatStart(options) ==
    /\ activated
    /\ Len(chats) < MaxChats
    /\ Operations < MaxOperations
    /\ LET e == ensureClient(apiUrl, client, wsUrl)
           rec == [cfg |-> configuredUrl(apiUrl), noClient |-> e.threw, via |-> NoUrl,
                   options |-> options, respond |-> <<>>,
                   pc |-> "model", calls |-> {}, cancelled |-> FALSE,
                   listening |-> FALSE, timer |-> FALSE, signal |-> "none",
                   stream |-> <<>>, progress |-> <<>>, outcome |-> "pending",
                   failure |-> "none", sawCancelled |-> FALSE]
       IN /\ client' = e.client
          /\ wsUrl' = e.wsUrl
          /\ chats' = Append(chats,
                IF e.threw
                THEN [rec EXCEPT !.pc = "done", !.outcome = "rejected",
                                 !.failure = "client"]
                ELSE IF e.client = NoClient
                THEN [rec EXCEPT !.pc = "done", !.outcome = "resolved",
                                 !.progress = <<Placeholder>>]
                ELSE [rec EXCEPT !.via = e.client.baseUrl, !.calls = {"model"}])
    /\ UNCHANGED <<activated, apiUrl, heap, cachedModels, refreshes, notifications,
                   info, counts, cfgChanges, historyVars>>

\* client.llm.model resolved: the abort controller is created, the listener
\* is registered, and respond is called with maxTokens, the controller's
\* signal and rawTools.  The
\* history handed to respond is constructChatHistory of the messages, a value
\* that no later step of the call reads; SpecHistory covers it.  The two
\* callbacks handed to respond run as the server streams: SpecStream.
ChatModelResolved(q) ==
    /\ chats[q].pc = "model"
    /\ LET reg == onCancellationRequested(chats[q].cancelled) IN
       chats' = [chats EXCEPT ![q] =
                    [@ EXCEPT !.signal = "live", !.listening = reg.listening,
                              !.timer = reg.timer, !.calls = @ \cup {"respond"},
                              !.respond = Append(@, [maxTokens |-> maxTokens(chats[q].options),
                                                     rawTools |-> rawTools(chats[q].options)]),
                              !.pc = "respond"]]
    /\ UNCHANGED <<activated, apiUrl, providerVars, info, counts, cfgChanges,
                   historyVars>>

\* client.llm.model rejected: outside the try, the rejection leaves the call
ChatModelRejected(q) ==
    /\ chats[q].pc = "model"
    /\ chats' = [chats EXCEPT ![q] =
                    [@ EXCEPT !.pc = "done", !.outcome = "rejected",
                              !.failure = "model",
                              !.sawCancelled = chats[q].cancelled]]
    /\ UNCHANGED <<activated, apiUrl, providerVars, info, counts, cfgChanges,
                   historyVars>>

\* await response: resolved
ChatRespondResolved(q) ==
    /\ chats[q].pc = "respond"
    /\ chats' = [chats EXCEPT ![q] = [@ EXCEPT !.pc = "done", !.outcome = "resolved"]]
    /\ UNCHANGED <<activated, apiUrl, providerVars, info, counts, cfgChanges,
                   historyVars>>

\* await response: rejected
ChatRespondRejected(q) ==
    /\ chats[q].pc = "respond"
    /\ chats' = [chats EXCEPT ![q] =
                    [@ EXCEPT !.pc = "done", !.failure = "respond",
                              !.sawCancelled = chats[q].cancelled,
                              !.outcome = respondRejected(chats[q].cancelled)]]
    /\ UNCHANGED <<activated, apiUrl, providerVars, info, counts, cfgChanges,
                   historyVars>>

\* The host requests cancellation of a request that is in flight; a listener
\* that is registered runs at once.
Cancel(q) ==
    /\ chats[q].outcome = "pending"
    /\ ~chats[q].cancelled
    /\ chats' = [chats EXCEPT ![q] =
                    [@ EXCEPT !.cancelled = TRUE,
                              !.signal = IF chats[q].listening THEN abort(@) ELSE @]]
    /\ UNCHANGED <<activated, apiUrl, providerVars, info, counts, cfgChanges,
                   historyVars>>

\* the zero-delay timer of a listener registered on a cancelled token
CancelTimer(q) ==
    /\ chats[q].timer
    /\ chats' = [chats EXCEPT ![q] =
                    [@ EXCEPT !.timer = FALSE, !.signal = abort(@)]]
    /\ UNCHANGED <<activated, apiUrl, providerVars, info, counts, cfgChanges,
                   historyVars>>

----------------------------------------------------------------------------
(* The callbacks handed to respond *)

Digits == <<"0", "1", "2", "3", "4", "5", "6", "7", "8", "9">>

\* Number.prototype.toString of a natural number
RECURSIVE toString(_)
toString(n) ==
    IF n < 10 THEN Digits[n + 1]
    ELSE toString(n \div 10) \o Digits[(n % 10) + 1]

\* what the server may stream: fragments of the prediction ...
Fragments ==
    {[event |-> "predictionFragment", reasoningType |-> t, content |-> c] :
        t \in {"none", "reasoning", "reasoningStartTag"}, c \in TextValues}

\* ... and the ends of tool call requests
ToolCallRequestEnds ==
    {[event |-> "toolCallRequestEnd", callId |-> id,
      info |-> [toolCallRequest |-> [name |-> "read_file", arguments |-> args]]] :
        id \in {0, 12}, args \in {JsUndefined, [path |-> "x"]}}

\* every fragment is reported
onPredictionFragmentUnfiltered(progress, fragment) ==
    Append(progress, LanguageModelTextPart(fragment.content))

\* onPredictionFragment(fragment): progress.report of a text part, unless the
\* fragment is a reasoning fragment
onPredictionFragment(progress, fragment) ==
    IF fragment.reasoningType = "none"
    THEN Append(progress, LanguageModelTextPart(fragment.content))
    ELSE progress

\* onToolCallRequestEnd(callId, info): progress.report of a tool call part
onToolCallRequestEnd(progress, callId, callInfo) ==
    Append(progress,
           LanguageModelToolCallPart(toString(callId), callInfo.toolCallRequest.name,
                                     nullish(callInfo.toolCallRequest.arguments, EmptyObject)))

\* the events streamed so far to all requests
Streamed == Sum([q \in DOMAIN chats |-> Len(chats[q].stream)])

\* the server streams a fragment to a request whose respond call is pending
PredictionFragment(q, fragment) ==
    /\ chats[q].pc = "respond"
    /\ Streamed < MaxStream
    /\ chats' = [chats EXCEPT ![q] =
                    [@ EXCEPT !.stream = Append(@, fragment),
                              !.progress = onPredictionFragment(@, fragment)]]
    /\ UNCHANGED <<activated, apiUrl, providerVars, info, counts, cfgChanges,
                   historyVars>>

\* the server ends a tool call request of a request whose respond call is pending
ToolCallRequestEnd(q, end) ==
    /\ chats[q].pc = "respond"
    /\ Streamed < MaxStream
    /\ chats' = [chats EXCEPT ![q] =
                    [@ EXCEPT !.stream = Append(@, end),
                              !.progress = onToolCallRequestEnd(@, end.callId, end.info)]]
    /\ UNCHANGED <<activated, apiUrl, providerVars, info, counts, cfgChanges,
                   historyVars>>

----------------------------------------------------------------------------
(* provideTokenCount *)

\* the text to count: a string, here wrapped to tell it from a message, or a
\* chat message
StringTexts == {[string |-> str] : str \in {"", "a", "ab"}}

\* typeof text
typeof(text) == IF "string" \in DOMAIN text THEN "string" ELSE "object"

\* tool call parts are counted by their name
tokenCountContentWithToolCalls(text) ==
    IF typeof(text) = "string" THEN text.string
    ELSE join([i \in DOMAIN text.content |->
                  IF instanceof(text.content[i], "LanguageModelTextPart")
                  THEN text.content[i].value
                  ELSE IF instanceof(text.content[i], "LanguageModelToolCallPart")
                  THEN text.content[i].name
                  ELSE ""])

\* the content handed to countTokens
tokenCountContent(text) ==
    IF typeof(text) = "string" THEN text.string
    ELSE join([i \in DOMAIN text.content |->
                  IF instanceof(text.content[i], "LanguageModelTextPart")
                  THEN text.content[i].value
                  ELSE ""])

\* The call up to its first await
CountStart(text) ==
    /\ activated
    /\ Len(counts) < MaxCounts
    /\ Operations < MaxOperations
    /\ LET e == ensureClient(apiUrl, client, wsUrl)
           rec == [cfg |-> configuredUrl(apiUrl), noClient |-> e.threw, via |-> NoUrl,
                   text |-> text, pc |-> "model", calls |-> {}, countTokens |-> <<>>,
                   outcome |-> "pending", error |-> "none"]
       IN /\ client' = e.client
          /\ wsUrl' = e.wsUrl
          /\ counts' = Append(counts,
                IF e.threw
                THEN [rec EXCEPT !.pc = "done", !.outcome = "rejected",
                                 !.error = "LMStudioClient"]
                ELSE IF e.client = NoClient
                THEN [rec EXCEPT !.pc = "done", !.outcome = "rejected",
                                 !.error = NoClientError]
                ELSE [rec EXCEPT !.via = e.client.baseUrl, !.calls = {"model"}])
    /\ UNCHANGED <<activated, apiUrl, heap, cachedModels, refreshes, notifications,
                   info, chats, cfgChanges, historyVars>>

\* client.llm.model settled: on success countTokens is called
CountModelSettled(c, ok) ==
    /\ counts[c].pc = "model"
    /\ counts' = [counts EXCEPT ![c] =
                    IF ok THEN [@ EXCEPT !.pc = "count", !.calls = @ \cup {"countTokens"},
                                         !.countTokens = Append(@, tokenCountContent(counts[c].text))]
                    ELSE [@ EXCEPT !.pc = "done", !.outcome = "rejected",
                                   !.error = "model"]]
    /\ UNCHANGED <<activated, apiUrl, providerVars, info, chats, cfgChanges,
                   historyVars>>

\* llmModel.countTokens settled: its promise is the call's result
CountTokensSettled(c, ok) ==
    /\ counts[c].pc = "count"
    /\ counts' = [counts EXCEPT ![c] =
                    IF ok THEN [@ EXCEPT !.pc = "done", !.outcome = "resolved"]
                    ELSE [@ EXCEPT !.pc = "done", !.outcome = "rejected",
                                   !.error = "countTokens"]]
    /\ UNCHANGED <<activated, apiUrl, providerVars, info, chats, cfgChanges,
                   historyVars>>

----------------------------------------------------------------------------
(* The adapter in its host *)

Init ==
    /\ activated = FALSE
    /\ apiUrl \in ConfigValues
    /\ client = NoClient
    /\ wsUrl = NoUrl
    /\ heap = << <<>> >>
    /\ cachedModels = 1
    /\ refreshes = <<>>
    /\ notifications = 0
    /\ info = [from |-> 0, entries |-> <<>>]
    /\ chats = <<>>
    /\ counts = <<>>
    /\ cfgChanges = 0
    /\ messages = <<>>
    /\ chatHistory = NotConstructed

InitHistory ==
    /\ activated = TRUE
    /\ apiUrl = Unset
    /\ client = NoClient
    /\ wsUrl = NoUrl
    /\ heap = << <<>> >>
    /\ cachedModels = 1
    /\ refreshes = <<>>
    /\ notifications = 0
    /\ info = [from |-> 0, entries |-> <<>>]
    /\ chats = <<>>
    /\ counts = <<>>
    /\ cfgChanges = 0
    /\ messages = <<>>
    /\ chatHistory = NotConstructed

NextHistory ==
    \/ \E role \in Roles : RequestMessage(role)
    \/ \E part \in HostParts : RequestPart(part)
    \/ \E part \in InnerParts : ResultPart(part)
    \/ ConstructChatHistory

\* _constructChatHistory on every list of messages within the bounds
SpecHistory == InitHistory /\ [][NextHistory]_vars

Next ==
    \/ Activate
    \/ RefreshCommand
    \/ \E value \in ConfigValues : ConfigurationChange(value)
    \/ \E r \in DOMAIN refreshes : \E listing \in Listings : RefreshResolved(r, listing)
    \/ \E r \in DOMAIN refreshes : RefreshRejected(r)
    \/ ProvideInformation
    \/ \E options \in {EmptyObject} : ChatStart(options)
    \/ \E q \in DOMAIN chats : ChatModelResolved(q)
    \/ \E q \in DOMAIN chats : ChatModelRejected(q)
    \/ \E q \in DOMAIN chats : ChatRespondResolved(q)
    \/ \E q \in DOMAIN chats : ChatRespondRejected(q)
    \/ \E q \in DOMAIN chats : Cancel(q)
    \/ \E q \in DOMAIN chats : CancelTimer(q)
    \/ \E text \in {[string |-> "a"]} : CountStart(text)
    \/ \E c \in DOMAIN counts : \E ok \in BOOLEAN : CountModelSettled(c, ok)
    \/ \E c \in DOMAIN counts : \E ok \in BOOLEAN : CountTokensSettled(c, ok)

Spec == Init /\ [][Next]_vars

NextStream ==
    \/ Activate
    \/ \E options \in {EmptyObject} : ChatStart(options)
    \/ \E q \in DOMAIN chats : ChatModelResolved(q)
    \/ \E q \in DOMAIN chats : ChatModelRejected(q)
    \/ \E q \in DOMAIN chats : \E fragment \in Fragments : PredictionFragment(q, fragment)
    \/ \E q \in DOMAIN chats : \E end \in ToolCallRequestEnds : ToolCallRequestEnd(q, end)
    \/ \E q \in DOMAIN chats : ChatRespondResolved(q)
    \/ \E q \in DOMAIN chats : ChatRespondRejected(q)
    \/ \E q \in DOMAIN chats : Cancel(q)
    \/ \E q \in DOMAIN chats : CancelTimer(q)

\* the texts the host may ask to count: strings and the messages of its request
Texts == StringTexts \cup {messages[i] : i \in DOMAIN messages}

NextCount ==
    \/ \E role \in Roles : RequestMessage(role)
    \/ \E part \in HostParts : RequestPart(part)
    \/ \E part \in InnerParts : ResultPart(part)
    \/ \E text \in Texts : CountStart(text)
    \/ \E c \in DOMAIN counts : \E ok \in BOOLEAN : CountModelSettled(c, ok)
    \/ \E c \in DOMAIN counts : \E ok \in BOOLEAN : CountTokensSettled(c, ok)

\* provideTokenCount on strings and on every message within the bounds
SpecCount == InitHistory /\ [][NextCount]_vars

NextRequest ==
    \/ Activate
    \/ \E r \in DOMAIN refreshes : \E listing \in Listings : RefreshResolved(r, listing)
    \/ \E r \in DOMAIN refreshes : RefreshRejected(r)
    \/ ProvideInformation
    \/ \E options \in RequestOptions : ChatStart(options)
    \/ \E q \in DOMAIN chats : ChatModelResolved(q)
    \/ \E q \in DOMAIN chats : ChatModelRejected(q)
    \/ \E q \in DOMAIN chats : ChatRespondResolved(q)
    \/ \E q \in DOMAIN chats : ChatRespondRejected(q)

\* the models advertised and chat requests with every choice of options
SpecRequest == Init /\ [][NextRequest]_vars

\* chat requests with the events the server streams to them
SpecStream == Init /\ [][NextStream]_vars

\* the zero-delay timers of the event loop run
FairSpec == Spec /\ \A q \in 1..MaxChats : WF_vars(q \in DOMAIN chats /\ CancelTimer(q))

----------------------------------------------------------------------------
(* Properties *)

Done(r) == refreshes[r].state = "done"
Failed(r) == Done(r) /\ ~refreshes[r].ok
Succeeded(r) == Done(r) /\ refreshes[r].ok

\* C1: a refresh that fails (the client cannot be created, or the listing is
\* rejected) leaves the cache empty when it finishes and shows exactly one
\* error message, and no refresh makes more than one listing call.
C1_FailedRefresh ==
    /\ \A r \in DOMAIN refreshes :
          /\ refreshes[r].listCalls <= 1
          /\ Failed(r) => /\ heap[refreshes[r].ref] = <<>>
                          /\ refreshes[r].seen = <<>>
                          /\ refreshes[r].shown = 1
          /\ ~Failed(r) => refreshes[r].shown = 0
    /\ notifications = Cardinality({r \in DOMAIN refreshes : Failed(r)})

\* a listing was rejected after an earlier refresh had filled the cache
C1_Witness ==
    \E r1, r2 \in DOMAIN refreshes :
        /\ Succeeded(r1) /\ refreshes[r1].seen # <<>>
        /\ Failed(r2) /\ refreshes[r2].listCalls = 1
        /\ refreshes[r1].ref < refreshes[r2].ref
        /\ cachedModels = refreshes[r2].ref

\* the values of the text parts among the first n parts of content, in order
RECURSIVE TextUpTo(_, _)
TextUpTo(content, n) ==
    IF n = 0 THEN ""
    ELSE TextUpTo(content, n - 1)
         \o (IF content[n].kind = "LanguageModelTextPart" THEN content[n].value ELSE "")

Constructed == chatHistory # NotConstructed

\* C2: every message that contains a tool-result part yields a record of role
\* 'tool', and the part yields a toolCallResult part with the part's callId
\* and the concatenation, in order, of the values of its text parts.
C2_ToolResult ==
    Constructed =>
        \A i \in DOMAIN messages : \A j \in DOMAIN messages[i].content :
            LET part == messages[i].content[j] IN
            part.kind = "LanguageModelToolResultPart" =>
                /\ chatHistory.messages[i].role = "tool"
                /\ chatHistory.messages[i].content[j] =
                      [type |-> "toolCallResult", toolCallId |-> part.callId,
                       content |-> TextUpTo(part.content, Len(part.content))]

\* a tool result holding two different texts was converted
C2_Witness ==
    /\ Constructed
    /\ \E i \in DOMAIN messages : \E j \in DOMAIN messages[i].content :
          /\ messages[i].content[j].kind = "LanguageModelToolResultPart"
          /\ messages[i].content[j].content =
                <<LanguageModelTextPart("a"), LanguageModelTextPart("b")>>
          /\ chatHistory.messages[i].content[j].content = "ab"

\* C3 as stated: whatever fails while a request is served, the error is
\* re-raised exactly when the token is not cancelled at that moment.
C3_EveryFailure ==
    \A q \in DOMAIN chats :
        chats[q].failure # "none" =>
            (chats[q].outcome = "rejected" <=> ~chats[q].sawCancelled)

\* C3 amended: a rejection of the awaited respond call is re-raised exactly
\* when the token is not cancelled at that moment, and swallowed otherwise; a
\* failure before that await (creating the client, looking the model up) is
\* re-raised whatever the token says.
C3_RespondFailure ==
    \A q \in DOMAIN chats :
        /\ chats[q].failure = "respond" =>
              /\ chats[q].outcome = "rejected" <=> ~chats[q].sawCancelled
              /\ chats[q].outcome = "resolved" <=> chats[q].sawCancelled
        /\ chats[q].failure \in {"client", "model"} => chats[q].outcome = "rejected"

\* respond was rejected after cancellation and the call resolved
C3_Witness ==
    \E q \in DOMAIN chats :
        /\ chats[q].failure = "respond"
        /\ chats[q].sawCancelled
        /\ chats[q].outcome = "resolved"

\* C4: once the host has requested cancellation of a request, the signal
\* handed to respond eventually is aborted, whether the request came before or
\* after the listener was registered; and the signal of a request is aborted
\* only if the token of that request is cancelled.
C4_CancellationForwarded ==
    \A q \in 1..MaxChats :
        /\ [](q \in DOMAIN chats /\ chats[q].signal = "aborted" => chats[q].cancelled)
        /\ (q \in DOMAIN chats /\ chats[q].cancelled /\ chats[q].signal # "none")
              ~> (q \in DOMAIN chats /\ chats[q].signal = "aborted")

\* cancellation came during the model lookup and the signal was aborted later
C4_Witness ==
    \E q \in DOMAIN chats :
        /\ chats[q].cancelled
        /\ ~chats[q].listening
        /\ chats[q].signal = "aborted"

\* C5: with no client to be had, provideLanguageModelChatResponse reports the
\* placeholder and returns, provideTokenCount fails with the descriptive
\* error, and neither calls the server.
C5_FailFast ==
    /\ \A q \in DOMAIN chats :
          chats[q].noClient => /\ chats[q].progress = <<Placeholder>>
                               /\ chats[q].outcome = "resolved"
                               /\ chats[q].calls = {}
    /\ \A c \in DOMAIN counts :
          counts[c].noClient => /\ counts[c].outcome = "rejected"
                                /\ counts[c].error = NoClientError
                                /\ counts[c].calls = {}

SettlesNow(r) ==
    /\ r \in DOMAIN refreshes'
    /\ refreshes'[r].state = "done"
    /\ r \in DOMAIN refreshes => refreshes[r].state # "done"

\* C6: no step changes an array that exists, so a list that was the cache and
\* the information returned from it stay as they were; the cache field changes
\* only in a step in which a refresh settles.
C6_CacheReplaced ==
    [][ /\ \A ref \in DOMAIN heap : ref \in DOMAIN heap' /\ heap'[ref] = heap[ref]
        /\ cachedModels' # cachedModels =>
              /\ \E r \in DOMAIN refreshes' : SettlesNow(r)
              /\ cachedModels' \notin DOMAIN heap
              /\ info' = info ]_vars

\* information was returned from a non-empty cache that a later refresh replaced
C6_Witness ==
    /\ info.from \in DOMAIN heap
    /\ info.from # cachedModels
    /\ heap[info.from] # <<>>
    /\ heap[info.from] # heap[cachedModels]
    /\ Len(info.entries) = Len(heap[info.from])

LLMs(listing) == {i \in DOMAIN listing : listing[i].type = "llm"}
Rank(listing, i) == Cardinality({j \in LLMs(listing) : j <= i})

\* C7: the information returned from the cache of a successful refresh has one
\* entry for each 'llm' model of the listing, in the listing's order, with
\* the model key as id and the display name as name; the cache never holds a
\* model of another type.
C7_OnlyLLMs ==
    /\ \A i \in DOMAIN heap[cachedModels] : heap[cachedModels][i].type = "llm"
    /\ \A r \in DOMAIN refreshes :
          Succeeded(r) /\ info.from = refreshes[r].ref =>
              LET listing == refreshes[r].listing IN
              /\ Len(info.entries) = Cardinality(LLMs(listing))
              /\ \A i \in LLMs(listing) :
                    /\ info.entries[Rank(listing, i)].id = listing[i].modelKey
                    /\ info.entries[Rank(listing, i)].name = listing[i].displayName

\* information was returned after a refresh whose listing held another type
C7_Witness ==
    \E r \in DOMAIN refreshes :
        /\ Succeeded(r)
        /\ info.from = refreshes[r].ref
        /\ Len(refreshes[r].listing) = 2
        /\ Len(info.entries) = 1
        /\ refreshes[r].listing[1].type # "llm"

\* C8: one record for each message and one part for each part, in order; a
\* text part keeps its value, a tool call keeps callId, name and input as id,
\* name and arguments of a function toolCallRequest, and a part of a class
\* that is not tested for becomes the empty text part.
C8_FaithfulCopy ==
    Constructed =>
        /\ DOMAIN chatHistory.messages = DOMAIN messages
        /\ \A i \in DOMAIN messages :
              /\ chatHistory.messages[i] # Undefined
              /\ DOMAIN chatHistory.messages[i].content = DOMAIN messages[i].content
              /\ \A j \in DOMAIN messages[i].content :
                    LET part == messages[i].content[j]
                        out == chatHistory.messages[i].content[j]
                    IN /\ part.kind = "LanguageModelTextPart" =>
                              out = [type |-> "text", text |-> part.value]
                       /\ part.kind = "LanguageModelToolCallPart" =>
                              out = [type |-> "toolCallRequest",
                                     toolCallRequest |->
                                        [type |-> "function", id |-> part.callId,
                                         name |-> part.name, arguments |-> part.input]]
                       /\ part.kind \notin {"LanguageModelTextPart",
                                            "LanguageModelToolCallPart",
                                            "LanguageModelToolResultPart"} =>
                              out = [type |-> "text", text |-> ""]

\* two messages were converted, with a text, a tool call and an unknown part
C8_Witness ==
    /\ Constructed
    /\ Len(messages) = 2
    /\ Len(messages[1].content) = 2
    /\ messages[1].content[1] = LanguageModelTextPart("b")
    /\ messages[1].content[2].kind = "LanguageModelToolCallPart"
    /\ messages[2].content = <<LanguageModelDataPart>>
    /\ chatHistory.messages[2].content = <<[type |-> "text", text |-> ""]>>

\* C9: every call to the server goes through a client created with the URL
\* that was configured when its operation started, and every change of
\* lmStudioAdapter.apiUrl starts a refresh.
C9_ConfiguredClient ==
    /\ \A r \in DOMAIN refreshes :
          refreshes[r].listCalls > 0 => refreshes[r].via = refreshes[r].cfg
    /\ \A q \in DOMAIN chats : chats[q].calls # {} => chats[q].via = chats[q].cfg
    /\ \A c \in DOMAIN counts : counts[c].calls # {} => counts[c].via = counts[c].cfg
    /\ cfgChanges = Cardinality({r \in DOMAIN refreshes :
                                    refreshes[r].origin = "configuration"})

\* C10: a refresh fires the change event once, when it settles and not before,
\* and the listeners then find in the cache the outcome of that refresh: the
\* 'llm' models of its listing, or the empty list when it failed.
C10_FiresOnce ==
    \A r \in DOMAIN refreshes :
        /\ ~Done(r) => refreshes[r].fired = 0
        /\ Done(r) => refreshes[r].fired = 1
        /\ Succeeded(r) =>
              /\ Len(refreshes[r].seen) = Cardinality(LLMs(refreshes[r].listing))
              /\ \A i \in LLMs(refreshes[r].listing) :
                    refreshes[r].seen[Rank(refreshes[r].listing, i)] = refreshes[r].listing[i]
        /\ Failed(r) => refreshes[r].seen = <<>>

\* the refresh of the constructor succeeded and one started by a
\* configuration change failed
C10_Witness ==
    \E r1, r2 \in DOMAIN refreshes :
        /\ refreshes[r1].origin = "constructor" /\ Succeeded(r1)
        /\ refreshes[r1].seen # <<>>
        /\ refreshes[r2].origin = "configuration" /\ Failed(r2)
        /\ refreshes[r2].fired = 1

\* C14: when no refresh is in flight any more, the cache holds what the
\* refresh that started last assigned, also when an earlier refresh was still
\* waiting for its listing as that one started.
C14_LastStartedWins ==
    (refreshes # <<>> /\ \A r \in DOMAIN refreshes : Done(r)) =>
        cachedModels = refreshes[Len(refreshes)].ref

HasToolResult(msg) ==
    \E j \in DOMAIN msg.content : msg.content[j].kind = "LanguageModelToolResultPart"

\* C15: every message yields a record whose role is 'user', 'assistant' or
\* 'tool': 'tool' when the message holds a tool result, else 'assistant' for
\* the host role Assistant, else 'user'; and a 'user' record holds only text
\* parts.
C15_TotalRoles ==
    Constructed =>
        \A i \in DOMAIN messages :
            LET record == chatHistory.messages[i] IN
            /\ record # Undefined
            /\ record.role \in {"user", "assistant", "tool"}
            /\ record.role = IF HasToolResult(messages[i]) THEN "tool"
                             ELSE IF messages[i].role = "Assistant" THEN "assistant"
                             ELSE "user"
            /\ record.role = "user" =>
                  \A j \in DOMAIN record.content : record.content[j].type = "text"

\* the parts the host is owed for the first n events of a stream
RECURSIVE Reported(_, _)
Reported(stream, n) ==
    IF n = 0 THEN <<>>
    ELSE LET e == stream[n]
             before == Reported(stream, n - 1)
         IN IF e.event = "toolCallRequestEnd"
            THEN before \o <<[kind |-> "LanguageModelToolCallPart",
                              callId |-> IF e.callId = 0 THEN "0" ELSE "12",
                              name |-> e.info.toolCallRequest.name,
                              input |-> IF e.info.toolCallRequest.arguments = JsUndefined
                                        THEN <<>>
                                        ELSE e.info.toolCallRequest.arguments]>>
            ELSE IF e.reasoningType = "none"
            THEN before \o <<[kind |-> "LanguageModelTextPart", value |-> e.content]>>
            ELSE before

\* C12: the parts reported for a request are its streamed events in order: a
\* text part for each fragment of reasoning type 'none', a tool call part
\* (call id as a string, name, arguments or {}) for each ended tool call
\* request, and nothing for a fragment of another reasoning type.
C12_StreamReported ==
    \A q \in DOMAIN chats :
        chats[q].progress = Reported(chats[q].stream, Len(chats[q].stream))

\* a tool call without arguments and then a reasoning fragment were streamed
C12_Witness ==
    \E q \in DOMAIN chats :
        /\ Len(chats[q].stream) = 2
        /\ chats[q].stream[1].event = "toolCallRequestEnd"
        /\ chats[q].stream[1].callId = 12
        /\ chats[q].stream[1].info.toolCallRequest.arguments = JsUndefined
        /\ chats[q].stream[2].event = "predictionFragment"
        /\ chats[q].stream[2].reasoningType = "reasoning"
        /\ Len(chats[q].progress) = 1

\* C13: the content handed to countTokens is the string given, or the values
\* of the message's text parts joined in order; no other part adds to it, and
\* countTokens is called once, after the model was resolved.
C13_CountsOnlyText ==
    \A c \in DOMAIN counts :
        LET text == counts[c].text IN
        IF counts[c].pc = "model" \/ counts[c].error \in {"LMStudioClient", NoClientError, "model"}
        THEN counts[c].countTokens = <<>>
        ELSE counts[c].countTokens =
                << IF "string" \in DOMAIN text THEN text.string
                   ELSE TextUpTo(text.content, Len(text.content)) >>

\* a message with a tool call between two text parts was counted as "ab"
C13_Witness ==
    \E c \in DOMAIN counts :
        /\ "content" \in DOMAIN counts[c].text
        /\ Len(counts[c].text.content) = 3
        /\ counts[c].text.content[1] = [kind |-> "LanguageModelTextPart", value |-> "a"]
        /\ counts[c].text.content[2].kind = "LanguageModelToolCallPart"
        /\ counts[c].text.content[3] = [kind |-> "LanguageModelTextPart", value |-> "b"]
        /\ counts[c].countTokens = <<"ab">>
        /\ counts[c].outcome = "resolved"

\* the call of respond was made
Responded(q) == "respond" \in chats[q].calls

\* C11: respond is handed one function tool for each tool of the request
\* options, in order, with the tool's name, description and input schema, and
\* an empty tool array when the options have no tools; an advertised model has
\* toolCalling exactly if the server reports it as trained for tool use.
C11_ToolsPassedThrough ==
    /\ \A q \in DOMAIN chats :
          Responded(q) =>
              /\ Len(chats[q].respond) = 1
              /\ chats[q].respond[1].rawTools.type = "toolArray"
              /\ LET given == chats[q].options
                     sent == chats[q].respond[1].rawTools.tools
                 IN IF "tools" \notin DOMAIN given THEN sent = <<>>
                    ELSE /\ Len(sent) = Len(given.tools)
                         /\ \A i \in DOMAIN given.tools :
                               /\ sent[i].type = "function"
                               /\ sent[i].function.name = given.tools[i].name
                               /\ sent[i].function.description = given.tools[i].description
                               /\ sent[i].function.parameters = given.tools[i].inputSchema
    /\ info.from # 0 =>
          /\ Len(info.entries) = Len(heap[info.from])
          /\ \A i \in DOMAIN info.entries :
                info.entries[i].capabilities.toolCalling
                    = heap[info.from][i].trainedForToolUse

\* two different tools were handed over in the order given, while a model
\* trained for tool use and one that is not are advertised
C11_Witness ==
    /\ \E q \in DOMAIN chats :
          /\ Responded(q)
          /\ "tools" \in DOMAIN chats[q].options
          /\ Len(chats[q].options.tools) = 2
          /\ chats[q].options.tools[1].name = "list_dir"
          /\ chats[q].respond[1].rawTools.tools[1].function.name = "list_dir"
          /\ chats[q].respond[1].rawTools.tools[2].function.name = "read_file"
    /\ \E i, j \in DOMAIN info.entries :
          /\ info.entries[i].capabilities.toolCalling
          /\ ~info.entries[j].capabilities.toolCalling

\* C16: every advertised model has maxOutputTokens 2000 and a maxInputTokens
\* that is not negative and makes up the rest of the model's context length;
\* a request without a maximum token count, or with 0, is sent with 2000.
C16_TokenLimits ==
    /\ \A i \in DOMAIN info.entries :
          /\ info.entries[i].maxOutputTokens = 2000
          /\ info.entries[i].maxInputTokens >= 0
          /\ info.entries[i].maxInputTokens + info.entries[i].maxOutputTokens
                = heap[info.from][i].maxContextLength
    /\ \A q \in DOMAIN chats :
          LET given == chats[q].options
              unlimited == \/ "modelOptions" \notin DOMAIN given
                           \/ "maxTokens" \notin DOMAIN given.modelOptions
                           \/ given.modelOptions.maxTokens = 0
          IN Responded(q) /\ unlimited => chats[q].respond[1].maxTokens = 2000

====
